---- MODULE Spec2Model ----
(***************************************************************************)
(* Conversation memory layer of EvoVerse:                                  *)
(*   ConversationMemory  (evoverse/core/llm_client.py)                     *)
(*   ConversationManager (evoverse/memory/conversation_manager.py)         *)
(*                                                                         *)
(* Timestamps are datetime.now().isoformat() strings in the code.  Their   *)
(* string order is their time order, so they are integers here.  `now` is  *)
(* the latest reading of the wall clock; the clock has microsecond         *)
(* resolution and every handler that records a time reads it at a later    *)
(* instant than the handler before it.  A handler that raises before it    *)
(* reaches datetime.now() does not read the clock.                         *)
(***************************************************************************)
EXTENDS Integers, Sequences, FiniteSets, TLC

VARIABLES
    now,              \* the latest reading of the wall clock
    win,              \* a stand-alone ConversationMemory
    appended,         \* history: every turn ever appended to win, in order
    got,              \* what win.get_messages returned, if it was the call just made
    max_sessions,     \* ConversationManager.max_sessions
    active_sessions,  \* ConversationManager.active_sessions: id -> ConversationMemory
    session_metadata, \* ConversationManager.session_metadata: insertion-ordered dict
    disk,             \* the files <storage_path>/<id>.json: id -> file
    last,             \* the call just made and how it ended
    accessed,         \* history: id -> time this registry last created, wrote or read it
    saved,            \* history: id -> what save_session last wrote from
    listing,          \* what list_sessions returned, if it was the call just made
    today,            \* the day datetime.utcnow() falls on
    instant,          \* how many times a MemoryStore has stamped a new memory
    memories,         \* MemoryStore.memories: category -> list of Memory
    experiment_signatures,   \* MemoryStore.experiment_signatures: combined_hash -> signature
    prune_after_days,        \* MemoryStore.prune_after_days
    min_importance_to_keep,  \* MemoryStore.min_importance_to_keep (hundredths)
    max_memories,     \* MemoryStore.max_memories
    answer,           \* the MemoryStore call just made, its arguments and its result
    recorded          \* history: the (hypothesis, protocol) pairs recorded since clear_all

vars == <<now, win, appended, got, max_sessions, active_sessions, session_metadata,
          disk, last, accessed, saved, listing, today, instant, memories,
          experiment_signatures, prune_after_days, min_importance_to_keep,
          max_memories, answer, recorded>>

windowVars == <<win, appended, got>>
managerVars == <<max_sessions, active_sessions, session_metadata, disk, accessed, saved,
                 listing>>
storeVars == <<today, instant, memories, experiment_signatures, prune_after_days,
               min_importance_to_keep, max_memories, answer, recorded>>

----------------------------------------------------------------------------
(* Bounds of the model *)

MaxClock == 3          \* clock readings in a run of the registry
MaxEvictClock == 5     \* clock readings in a run of the eviction scenario
MaxHist == 3           \* max_history of the stand-alone window
MaxSessionHist == 1    \* max_history given to create_session
MaxAppends == 4        \* turns appended to the stand-alone window
MaxEvictFiles == 1     \* files in the storage of the eviction scenario
MaxAdds == 2           \* memories a MemoryStore is given
MaxDay == 10           \* the last day of a run of a MemoryStore
MaxAccess == 1         \* access_count a memory reaches

(* Program constants *)

DefaultMaxHistory == 50

Ids == {"s1", "s2"}
EvictIds == {"s1", "s2", "s3", "s4"}
Roles == {"user", "assistant", "system"}
SessionRoles == {"user"}
Contents == {"hi"}

\* max_sessions of a registry over two ids (a larger limit never evicts), and
\* of the eviction scenario over four
SessionLimits == {1, 2}
EvictSessionLimit == 3

\* datetime.now()
Reading == now + 1

\* the defaults of MemoryStore.__init__
DefaultPruneAfterDays == 30
DefaultMinImportanceToKeep == 30
DefaultMaxMemories == 1000

\* what a MemoryStore is built with and asked
PruneAfterDaysChoices == {0, 10}
MaxMemoriesChoices == {1}
DaySteps == {10}
StoreContents == {<<"Cache">>}
Importances == {-10, 20, 95, 120}
ValidImportances == {20, 95}
SuccessRates == {-50, 50, 200}
TagLists == {<< >>, <<"cache">>}
QueryCategories == {<< >>, <<"general">>}
MinImportances == {0, 90}
Limits == {1, 2}
Queries == {<<"Use", "cache">>}
Hypotheses == {"H", "H2"}
Protocols == {<< >>, <<"">>, <<"P">>}

\* demo_memory_system.py: the success pattern "使用缓存机制优化重复计算" and the
\* query "优化 performance cache".  Texts are the lists str.split() makes of
\* them; the pattern holds no whitespace, so it is one token.  Chinese is
\* written in pinyin: "youhua" is "优化".
DemoPattern == <<"shiyonghuancunjizhiyouhuachongfujisuan">>
DemoTags == <<"optimization", "cache", "performance">>
DemoSuccessRate == 85
DemoQuery == <<"youhua", "performance", "cache">>
SearchContents == {<<"performance", "tuning">>, <<"Cache", "performance">>,
                   <<"cache", "performance", "youhua">>}
SearchQueries == {DemoQuery, <<"Cache", "performance">>}
SearchCategories == {<< >>, <<"general">>, <<"success_patterns">>}
SearchLimits == {1, 5}
\* strings that are no MemoryCategory value
InvalidCategories == {"bogus", ""}

----------------------------------------------------------------------------
(* Python list slicing *)

Max(a, b) == IF a >= b THEN a ELSE b
Min(a, b) == IF a <= b THEN a ELSE b

\* s[i:]
SliceFrom(s, i) ==
    LET start == IF i < 0 THEN Max(Len(s) + i, 0) ELSE Min(i, Len(s))
    IN  SubSeq(s, start + 1, Len(s))

\* s[:j]
SliceTo(s, j) ==
    LET stop == IF j < 0 THEN Max(Len(s) + j, 0) ELSE Min(j, Len(s))
    IN  SubSeq(s, 1, stop)

----------------------------------------------------------------------------
(* ConversationMemory *)

NewMemory(max_history, t) ==
    [max_history |-> max_history, messages |-> << >>,
     created_at |-> t, last_accessed |-> t]

Turn(role, content, t) == [role |-> role, content |-> content, timestamp |-> t]

TrimHistory_KeepsOldest(messages, max_history) == SliceTo(messages, max_history)

\* the slice that add_message keeps once the list is too long
TrimHistory(messages, max_history) == SliceFrom(messages, 0 - max_history)

MemAddMessage(mem, role, content, t) ==
    LET all == Append(mem.messages, Turn(role, content, t))
    IN  [mem EXCEPT !.messages = IF Len(all) > mem.max_history
                                    THEN TrimHistory(all, mem.max_history)
                                    ELSE all,
                    !.last_accessed = t]

MemGetMessages_Raw(messages, include_system) == messages

RECURSIVE MemGetMessages(_, _)
MemGetMessages(messages, include_system) ==
    IF messages = << >> THEN << >>
    ELSE LET msg == Head(messages)
             rest == MemGetMessages(Tail(messages), include_system)
         IN  IF ~include_system /\ msg.role = "system"
                 THEN rest
                 ELSE <<[role |-> msg.role, content |-> msg.content]>> \o rest

----------------------------------------------------------------------------
(* Python dicts.  active_sessions is only asked for membership, length and *)
(* values, so it is a function; session_metadata is also sorted, and the   *)
(* stable sort keeps insertion order among equal keys, so it is a sequence *)
(* of entries in insertion order.                                          *)

Put(f, k, v) == [x \in DOMAIN f \cup {k} |-> IF x = k THEN v ELSE f[x]]
Drop(f, k) == [x \in DOMAIN f \ {k} |-> f[x]]

DictKeys(d) == {d[i].key : i \in 1..Len(d)}
DictGet(d, k) == d[CHOOSE i \in 1..Len(d) : d[i].key = k].val
DictSet(d, k, v) ==
    IF k \in DictKeys(d)
        THEN [i \in 1..Len(d) |-> IF d[i].key = k THEN [key |-> k, val |-> v] ELSE d[i]]
        ELSE Append(d, [key |-> k, val |-> v])
DictDel(d, k) == SelectSeq(d, LAMBDA e : e.key # k)

\* sorted(session_metadata.items(), key=last_accessed): stable, ascending
RECURSIVE SortedByLastAccessed(_)
SortedByLastAccessed(items) ==
    IF items = << >> THEN << >>
    ELSE LET e == items[Len(items)]
             front == SortedByLastAccessed(SubSeq(items, 1, Len(items) - 1))
         IN  SelectSeq(front, LAMBDA x : x.val.last_accessed <= e.val.last_accessed)
                 \o <<e>>
                 \o SelectSeq(front, LAMBDA x : x.val.last_accessed > e.val.last_accessed)

----------------------------------------------------------------------------
(* The files of the storage directory.  A file holds JSON text or text     *)
(* that json.load rejects.                                                 *)

JsonDump(data) == [kind |-> "json", data |-> data]

\* datetime.fromisoformat accepts what isoformat wrote
IsoParses(v) == v >= 0

\* files no save_session wrote: damaged or foreign records
Garbage == [kind |-> "garbage"]
NoMetadata(id) ==
    JsonDump([session_id |-> id, messages |-> << >>,
              created_at |-> 0, last_accessed |-> 0])
BadTimestamp(id) ==
    JsonDump([session_id |-> id,
              metadata |-> [created_at |-> 0, last_accessed |-> 0,
                            message_count |-> 0, max_history |-> 1],
              messages |-> << >>, created_at |-> -1, last_accessed |-> 0])
CorruptFiles(id) == {Garbage, NoMetadata(id), BadTimestamp(id)}

----------------------------------------------------------------------------
(* ConversationManager.  The operators work on a registry value            *)
(* [active, meta, files] so that one handler can call another.             *)

EmptyRegistry(files) ==
    [active |-> [x \in {} |-> 0], meta |-> << >>, files |-> files]

MetaOf(k, t) ==
    [created_at |-> t, last_accessed |-> t, message_count |-> 0, max_history |-> k]

\* the capacity load_session gives the rebuilt ConversationMemory
LoadedMaxHistory(data) ==
    IF "max_history" \in DOMAIN data THEN data.max_history ELSE DefaultMaxHistory

\* the statements of load_session's try block that run before metadata is read
InstallMemory(reg, id, memory) == [reg EXCEPT !.active = Put(@, id, memory)]

LoadSession(reg, id) ==
    IF id \notin DOMAIN reg.files THEN [reg |-> reg, ret |-> "False"]
    ELSE LET file == reg.files[id]
         IN  IF file.kind # "json" THEN [reg |-> reg, ret |-> "False"]
             ELSE LET data == file.data
                      keys == DOMAIN data
                  IN  IF \/ "messages" \notin keys
                         \/ "created_at" \notin keys
                         \/ ~IsoParses(data.created_at)
                         \/ "last_accessed" \notin keys
                         \/ ~IsoParses(data.last_accessed)
                          THEN [reg |-> reg, ret |-> "False"]
                          ELSE LET memory == [max_history |-> LoadedMaxHistory(data),
                                              messages |-> data.messages,
                                              created_at |-> data.created_at,
                                              last_accessed |-> data.last_accessed]
                                   installed == InstallMemory(reg, id, memory)
                               IN  IF "metadata" \notin keys
                                       THEN [reg |-> installed, ret |-> "False"]
                                       ELSE [reg |-> [installed EXCEPT
                                                        !.meta = DictSet(@, id, data.metadata)],
                                             ret |-> "True"]

\* _load_sessions: load_session for every *.json, in the order glob yields them
LoadSessions_Skipped(reg, order) == reg

RECURSIVE LoadSessions(_, _)
LoadSessions(reg, order) ==
    IF order = << >> THEN reg
    ELSE LoadSessions(LoadSession(reg, Head(order)).reg, Tail(order))

DeleteSession(reg, id) ==
    LET unlinked == [x \in DOMAIN reg.files \ {id} |-> reg.files[x]]
    IN  IF id \in DOMAIN reg.active
            THEN IF id \in DictKeys(reg.meta)
                     THEN [reg |-> [active |-> Drop(reg.active, id),
                                    meta |-> DictDel(reg.meta, id),
                                    files |-> unlinked],
                           ret |-> "ok"]
                     \* del session_metadata[id] raises before the file is unlinked
                     ELSE [reg |-> [reg EXCEPT !.active = Drop(@, id)],
                           ret |-> "KeyError"]
            ELSE [reg |-> [reg EXCEPT !.files = unlinked], ret |-> "ok"]

RECURSIVE DeleteAll(_, _)
DeleteAll(reg, to_delete) ==
    IF to_delete = << >> THEN [reg |-> reg, ret |-> "ok"]
    ELSE LET d == DeleteSession(reg, Head(to_delete).key)
         IN  IF d.ret # "ok" THEN d ELSE DeleteAll(d.reg, Tail(to_delete))

\* the sessions _cleanup_old_sessions picks
ToDelete(sorted_sessions, n) == SliceTo(sorted_sessions, Len(sorted_sessions) - n + 1)

CleanupOldSessions(reg, n) ==
    IF Cardinality(DOMAIN reg.active) <= n THEN [reg |-> reg, ret |-> "ok"]
    ELSE DeleteAll(reg, ToDelete(SortedByLastAccessed(reg.meta), n))

AlreadyExists_Unchecked(reg, id) == FALSE

\* create_session's test for an id that is taken
AlreadyExists(reg, id) == id \in DOMAIN reg.active

CreateSession(reg, n, id, k, t) ==
    IF AlreadyExists(reg, id) THEN [reg |-> reg, ret |-> "ValueError"]
    ELSE CleanupOldSessions(
             [reg EXCEPT !.active = Put(@, id, NewMemory(k, t)),
                         !.meta = DictSet(@, id, MetaOf(k, t))], n)

NotFound_Unchecked(reg, id) == FALSE

\* get_session's test for an id that is not active
NotFound(reg, id) == id \notin DOMAIN reg.active

GetSession(reg, id, t) ==
    IF NotFound(reg, id) THEN [reg |-> reg, ret |-> "ValueError"]
    ELSE IF id \notin DictKeys(reg.meta) THEN [reg |-> reg, ret |-> "KeyError"]
    ELSE [reg |-> [reg EXCEPT !.meta = DictSet(@, id,
                       [DictGet(reg.meta, id) EXCEPT !.last_accessed = t])],
          ret |-> "ok"]

AddMessage(reg, id, role, content, t) ==
    LET g == GetSession(reg, id, t)
    IN  IF g.ret # "ok" THEN g
        ELSE LET session == MemAddMessage(g.reg.active[id], role, content, t)
             IN  [reg |-> [g.reg EXCEPT
                     !.active = Put(@, id, session),
                     !.meta = DictSet(@, id, [DictGet(g.reg.meta, id) EXCEPT
                                                 !.message_count = Len(session.messages)])],
                  ret |-> "ok"]

GetMessages(reg, id, t) == GetSession(reg, id, t)

SessionRecord_WithoutTimestamps(reg, id) ==
    [session_id |-> id,
     metadata |-> DictGet(reg.meta, id),
     messages |-> MemGetMessages(reg.active[id].messages, TRUE),
     created_at |-> reg.active[id].created_at,
     last_accessed |-> reg.active[id].last_accessed]

\* the document save_session writes
SessionRecord(reg, id) ==
    [session_id |-> id,
     metadata |-> DictGet(reg.meta, id),
     messages |-> reg.active[id].messages,
     created_at |-> reg.active[id].created_at,
     last_accessed |-> reg.active[id].last_accessed]

SaveSession(reg, id) ==
    IF id \notin DOMAIN reg.active THEN [reg |-> reg, ret |-> "ok"]
    ELSE IF id \notin DictKeys(reg.meta) THEN [reg |-> reg, ret |-> "KeyError"]
    ELSE [reg |-> [reg EXCEPT !.files = Put(@, id, JsonDump(SessionRecord(reg, id)))],
          ret |-> "ok"]

\* sessions.sort(key=last_accessed, reverse=True): stable, descending
RECURSIVE SortedMostRecentFirst(_)
SortedMostRecentFirst(sessions) ==
    IF sessions = << >> THEN << >>
    ELSE LET e == sessions[Len(sessions)]
             front == SortedMostRecentFirst(SubSeq(sessions, 1, Len(sessions) - 1))
             keep == {i \in 0..Len(front) :
                         \A j \in 1..i : front[j].last_accessed >= e.last_accessed}
             at == CHOOSE i \in keep : \A j \in keep : j <= i
         IN  SubSeq(front, 1, at) \o <<e>> \o SubSeq(front, at + 1, Len(front))

ListSessions(reg) ==
    SortedMostRecentFirst(
        [i \in 1..Len(reg.meta) |->
            [session_id |-> reg.meta[i].key,
             created_at |-> reg.meta[i].val.created_at,
             last_accessed |-> reg.meta[i].val.last_accessed,
             message_count |-> reg.meta[i].val.message_count,
             max_history |-> reg.meta[i].val.max_history]])

----------------------------------------------------------------------------
(* MemoryStore (memory_store.py).  Times are whole days: utcnow() is the   *)
(* day `today`, and (a - b).days is a difference of days.  importance,     *)
(* min_importance and success_rate are floats in the code and hundredths   *)
(* here (0.95 is 95).  An optional str argument is << >> for None and <<s>>*)
(* for the text s; a tags argument is a list, and None is the empty list   *)
(* (the code only asks whether tags is truthy).  A content is the list of  *)
(* its whitespace-separated words.                                          *)

None == << >>
Some(text) == <<text>>
\* bool(x) of an optional str
Truthy(opt) == opt # None /\ opt[1] # ""

\* MemoryCategory, in the order the enumeration is iterated
MemoryCategory ==
    <<"success_patterns", "failure_patterns", "dead_ends", "insights", "general">>
Categories == {MemoryCategory[i] : i \in 1..Len(MemoryCategory)}

\* [f(x) for x in s]  and  concatenation of a list of lists
RECURSIVE Flatten(_)
Flatten(lists) ==
    IF lists = << >> THEN << >> ELSE Head(lists) \o Flatten(Tail(lists))

\* hashlib.md5(...).hexdigest(), and its first 16 digits: distinct texts have
\* distinct digests (fingerprints are taken to be collision-free)
Md5(text) == <<"md5", text>>
Md5Prefix(text) == <<"md5[:16]", text>>

\* how a call ends: it returns a value or raises
Returns(value) == [raised |-> "", value |-> value]
Raises(error) == [raised |-> error, value |-> << >>]

\* Field(0.5, ge=0.0, le=1.0)
ImportanceValid_Unchecked(importance) == TRUE

ImportanceValid(importance) == 0 <= importance /\ importance <= 100

\* Memory(id=..., category=..., content=..., importance=..., data=..., tags=...)
NewMemoryEntry(id, category, content, importance, data, tags, t) ==
    [id |-> id, category |-> category, content |-> content, data |-> data,
     importance |-> importance, access_count |-> 0,
     created_at |-> t, last_accessed |-> t, tags |-> tags]

Access_Reweighs(memory, t) ==
    [memory EXCEPT !.access_count = @ + 1, !.last_accessed = t, !.importance = 100]

\* Memory.access
Access(memory, t) ==
    [memory EXCEPT !.access_count = @ + 1, !.last_accessed = t]

Retained_ImportantOnly(memory, t, days, floor) == memory.importance >= floor

\* the test of _prune_memories: cutoff_date = utcnow() - timedelta(days)
Retained(memory, t, days, floor) ==
    \/ memory.importance >= floor
    \/ memory.created_at > t - days

PruneMemories(mems, t, days, floor) ==
    [category \in Categories |->
        SelectSeq(mems[category], LAMBDA memory : Retained(memory, t, days, floor))]

\* the store is the record [memories, signatures, days, floor]; a call
\* returns the store it leaves and what it returns or raises, add_memory also
\* the Memory it built
AddMemory(store, category, content, importance, data, tags, t, n) ==
    LET memory_id == Md5Prefix(<<category, content, n>>)
    IN  IF ~ImportanceValid(importance)
            THEN [store |-> store, ret |-> Raises("ValidationError"), made |-> None]
            ELSE LET memory == NewMemoryEntry(memory_id, category, content,
                                              importance, data, tags, t)
                     appended_to == [store.memories EXCEPT ![category] = Append(@, memory)]
                 IN  [store |-> [store EXCEPT !.memories =
                                    PruneMemories(appended_to, t, store.days, store.floor)],
                      ret |-> Returns(memory_id), made |-> memory]

\* min(success_rate * 0.8, 0.9)
SuccessImportance(success_rate) == Min((success_rate * 80) \div 100, 90)

AddSuccessPattern(store, pattern, success_rate, tags, t, n) ==
    AddMemory(store, "success_patterns", pattern, SuccessImportance(success_rate),
              [success_rate |-> success_rate],
              IF tags # << >> THEN tags ELSE <<"success">>, t, n)

AddFailurePattern(store, failure, lesson, tags, t, n) ==
    AddMemory(store, "failure_patterns",
              <<"Failure:">> \o failure \o <<"Lesson:">> \o lesson, 70,
              [failure |-> failure, lesson |-> lesson],
              IF tags # << >> THEN tags ELSE <<"failure">>, t, n)

AddDeadEnd(store, dead_end, reason, tags, t, n) ==
    AddMemory(store, "dead_ends",
              <<"Dead", "End:">> \o dead_end \o <<"Reason:">> \o reason, 90,
              [dead_end |-> dead_end, reason |-> reason],
              IF tags # << >> THEN tags ELSE <<"dead_end", "avoid">>, t, n)

AddInsight(store, insight, source, related_items, t, n) ==
    AddMemory(store, "insights", insight, 95,
              [source |-> source, related_items |-> related_items],
              <<"insight", source>>, t, n)

\* the categories a query or a search walks: [category] if category else all
SearchedCategories(category) ==
    IF Truthy(category) THEN <<category[1]>> ELSE MemoryCategory

\* any(tag in memory.tags for tag in tags)
SharesTag(memory, tags) ==
    \E i \in 1..Len(tags) : \E j \in 1..Len(memory.tags) : tags[i] = memory.tags[j]

Matches_AnyImportance(memory, tags, min_importance) ==
    tags # << >> => SharesTag(memory, tags)

\* the two filters of query_memory
Matches(memory, tags, min_importance) ==
    /\ ~(memory.importance < min_importance)
    /\ ~(tags # << >> /\ ~SharesTag(memory, tags))

\* (utcnow() - created_at).days
DaysSince(memory, t) == t - memory.created_at

\* a's sort key is at least b's, the key being
\* importance * (1.0 / max(1, days + 1)); both denominators are positive
ScoreAtLeast(a, b, t) ==
    a.importance * Max(1, DaysSince(b, t) + 1) >= b.importance * Max(1, DaysSince(a, t) + 1)

SortedByScore_Unsorted(results, t) == results

\* results.sort(key=score, reverse=True): stable, descending
RECURSIVE SortedByScore(_, _)
SortedByScore(results, t) ==
    IF results = << >> THEN << >>
    ELSE LET e == results[Len(results)]
             front == SortedByScore(SubSeq(results, 1, Len(results) - 1), t)
             keep == {i \in 0..Len(front) : \A j \in 1..i : ScoreAtLeast(front[j], e, t)}
             at == CHOOSE i \in keep : \A j \in keep : j <= i
         IN  SubSeq(front, 1, at) \o <<e>> \o SubSeq(front, at + 1, Len(front))

\* the list query_memory builds and sorts, before the limit cuts it
QueryResults(mems, category, tags, min_importance, t) ==
    LET categories == SearchedCategories(category)
    IN  SortedByScore(
            Flatten([i \in 1..Len(categories) |->
                SelectSeq(mems[categories[i]],
                          LAMBDA memory : Matches(memory, tags, min_importance))]), t)

Returned_All(results, limit) == results

\* results[:limit]
Returned(results, limit) == SliceTo(results, limit)

MarkAccessed_Examined(mems, ids, t) ==
    [category \in Categories |->
        [i \in 1..Len(mems[category]) |-> Access(mems[category][i], t)]]

\* memory.access() on every memory that is returned
MarkAccessed(mems, ids, t) ==
    [category \in Categories |->
        [i \in 1..Len(mems[category]) |->
            IF mems[category][i].id \in ids
                THEN Access(mems[category][i], t)
                ELSE mems[category][i]]]

QueryMemory(store, category, tags, min_importance, limit, t) ==
    IF Truthy(category) /\ category[1] \notin Categories
        THEN [store |-> store, ret |-> Raises("KeyError")]
        ELSE LET results == QueryResults(store.memories, category, tags, min_importance, t)
                 out == Returned(results, limit)
                 ids == {out[i].id : i \in 1..Len(out)}
             IN  [store |-> [store EXCEPT !.memories = MarkAccessed(@, ids, t)],
                  ret |-> Returns([i \in 1..Len(out) |-> Access(out[i], t)])]

\* str.lower() of a word
Lower(word) ==
    CASE word = "Cache" -> "cache"
      [] word = "Use" -> "use"
      [] OTHER -> word

\* set(text.lower().split())
Keywords(words) == {Lower(words[i]) : i \in 1..Len(words)}

Overlap(memory, query) == Cardinality(Keywords(query) \cap Keywords(memory.content))

SortedByOverlap_Unsorted(similar, query) == similar

\* similar.sort(key=overlap, reverse=True): stable, descending
RECURSIVE SortedByOverlap(_, _)
SortedByOverlap(similar, query) ==
    IF similar = << >> THEN << >>
    ELSE LET e == similar[Len(similar)]
             front == SortedByOverlap(SubSeq(similar, 1, Len(similar) - 1), query)
             keep == {i \in 0..Len(front) :
                         \A j \in 1..i : Overlap(front[j], query) >= Overlap(e, query)}
             at == CHOOSE i \in keep : \A j \in keep : j <= i
         IN  SubSeq(front, 1, at) \o <<e>> \o SubSeq(front, at + 1, Len(front))

SearchSimilar(store, query, category, limit) ==
    IF Truthy(category) /\ category[1] \notin Categories
        THEN [store |-> store, ret |-> Raises("KeyError")]
        ELSE LET categories == SearchedCategories(category)
                 similar == Flatten([i \in 1..Len(categories) |->
                                SelectSeq(store.memories[categories[i]],
                                          LAMBDA memory : Overlap(memory, query) >= 2)])
             IN  [store |-> store,
                  ret |-> Returns(SliceTo(SortedByOverlap(similar, query), limit))]

\* the three hashes record_experiment and is_duplicate_experiment compute
HypothesisHash(hypothesis) == Md5Prefix(hypothesis)

ProtocolHash(protocol) ==
    IF Truthy(protocol) THEN Md5Prefix(protocol) ELSE <<"text", Some("none")>>

CombinedHash(hypothesis, protocol) ==
    Md5(<<HypothesisHash(hypothesis), ProtocolHash(protocol)>>)

RecordExperiment(store, hypothesis, protocol, t) ==
    LET combined_hash == CombinedHash(hypothesis, protocol)
        signature == [hypothesis_hash |-> HypothesisHash(hypothesis),
                      protocol_hash |-> ProtocolHash(protocol),
                      combined_hash |-> combined_hash,
                      created_at |-> t]
    IN  [store |-> [store EXCEPT !.signatures = Put(@, combined_hash, signature)],
         ret |-> Returns(combined_hash)]

IsDuplicateExperiment(store, hypothesis, protocol) ==
    LET combined_hash == CombinedHash(hypothesis, protocol)
        is_duplicate == combined_hash \in DOMAIN store.signatures
        reason == IF is_duplicate THEN Some(<<"Duplicate of experiment", combined_hash>>)
                  ELSE None
    IN  [store |-> store, ret |-> Returns(<<is_duplicate, reason>>)]

GetStats_GeneralOnly(store, cap) ==
    [store |-> store,
     ret |-> Returns(
        [total_memories |-> Len(store.memories["general"]),
         by_category |-> [category \in Categories |-> Len(store.memories[category])],
         experiment_signatures |-> Cardinality(DOMAIN store.signatures),
         max_memories |-> cap,
         prune_after_days |-> store.days])]

GetStats(store, cap) ==
    [store |-> store,
     ret |-> Returns(
        [total_memories |-> Len(Flatten([i \in 1..Len(MemoryCategory) |->
                                            store.memories[MemoryCategory[i]]])),
         by_category |-> [category \in Categories |-> Len(store.memories[category])],
         experiment_signatures |-> Cardinality(DOMAIN store.signatures),
         max_memories |-> cap,
         prune_after_days |-> store.days])]

NoMemories == [category \in Categories |-> << >>]
NoSignatures == [x \in {} |-> 0]

ClearCategory(store, category) ==
    [store |-> [store EXCEPT !.memories[category] = << >>], ret |-> Returns(None)]

ClearAll(store) ==
    [store |-> [store EXCEPT !.memories = NoMemories, !.signatures = NoSignatures],
     ret |-> Returns(None)]

----------------------------------------------------------------------------
(* The learning memory: a MemoryStore and the calls on it.  SpecStore is   *)
(* the store being filled, queried and cleared as days pass; SpecAdd is    *)
(* every way of adding to it; SpecDedup is its experiment index;           *)
(* SpecSearch is keyword search; SpecCategory is queries that name a       *)
(* category; SpecLife is every call, for what becomes of a stored memory.  *)

Store == [memories |-> memories, signatures |-> experiment_signatures,
          days |-> prune_after_days, floor |-> min_importance_to_keep]

StoreBecomes(store) ==
    /\ memories' = store.memories
    /\ experiment_signatures' = store.signatures
    /\ UNCHANGED <<prune_after_days, min_importance_to_keep, max_memories>>

Called(op, ret) == [op |-> op, ret |-> ret, made |-> None]

\* MemoryStore(config, max_memories)
StoreConstructed(days, floor, cap) ==
    /\ today = 0
    /\ instant = 0
    /\ memories = NoMemories
    /\ experiment_signatures = NoSignatures
    /\ prune_after_days = days
    /\ min_importance_to_keep = floor
    /\ max_memories = cap
    /\ answer = Called("init", Returns(None))
    /\ recorded = {}

----------------------------------------------------------------------------
(* The stand-alone window: ConversationMemory(max_history), its appends and *)
(* its reads                                                               *)

NotAsked == [include_system |-> TRUE, value |-> << >>]

WInit ==
    /\ now = 0
    /\ \E k \in 0..MaxHist : win = NewMemory(k, 0)
    /\ appended = << >>
    /\ got = NotAsked
    /\ max_sessions = 1
    /\ active_sessions = [x \in {} |-> 0]
    /\ session_metadata = << >>
    /\ disk = [x \in {} |-> 0]
    /\ last = [op |-> "init", id |-> "", ret |-> "ok"]
    /\ accessed = [x \in {} |-> 0]
    /\ saved = [x \in {} |-> 0]
    /\ listing = << >>
    /\ StoreConstructed(DefaultPruneAfterDays, DefaultMinImportanceToKeep, DefaultMaxMemories)

WAddMessage(role, content) ==
    /\ Len(appended) < MaxAppends
    /\ now' = Reading
    /\ win' = MemAddMessage(win, role, content, Reading)
    /\ appended' = Append(appended, Turn(role, content, Reading))
    /\ got' = NotAsked
    /\ last' = [op |-> "add_message", id |-> "", ret |-> "ok"]
    /\ UNCHANGED <<managerVars, storeVars>>

\* win.get_messages(include_system)
WGetMessages(include_system) ==
    /\ got' = [include_system |-> include_system,
               value |-> MemGetMessages(win.messages, include_system)]
    /\ last' = [op |-> "get_messages", id |-> "", ret |-> "ok"]
    /\ UNCHANGED <<now, win, appended, managerVars, storeVars>>

WNext ==
    \/ \E role \in Roles, content \in Contents : WAddMessage(role, content)
    \/ \E include_system \in BOOLEAN : WGetMessages(include_system)

SpecWindow == WInit /\ [][WNext]_vars

----------------------------------------------------------------------------
(* The registry: a ConversationManager over a storage directory *)

Registry == [active |-> active_sessions, meta |-> session_metadata, files |-> disk]

\* the orders in which glob may yield the files
Orders(S) == {o \in [1..Cardinality(S) -> S] :
                 \A i, j \in 1..Cardinality(S) : i # j => o[i] # o[j]}

\* what the storage directory may hold before the first registry is built:
\* nothing, or one file that no save_session wrote (ids are interchangeable)
InitialStorages ==
    {[x \in {} |-> 0]} \cup {[x \in {"s1"} |-> f] : f \in CorruptFiles("s1")}

Restrict(f, S) == [x \in DOMAIN f \cap S |-> f[x]]

Becomes(reg) ==
    /\ active_sessions' = reg.active
    /\ session_metadata' = reg.meta
    /\ disk' = reg.files
    /\ saved' = Restrict(saved, DOMAIN reg.files)
    /\ listing' = << >>

\* ConversationManager(storage_path, max_sessions)
Constructed(files, order) == LoadSessions(EmptyRegistry(files), order)

Init ==
    /\ now = 0
    /\ win = NewMemory(DefaultMaxHistory, 0)
    /\ appended = << >>
    /\ got = NotAsked
    /\ max_sessions \in SessionLimits
    /\ \E files \in InitialStorages : \E order \in Orders(DOMAIN files) :
           LET reg == Constructed(files, order)
           IN  /\ active_sessions = reg.active
               /\ session_metadata = reg.meta
               /\ disk = reg.files
    /\ last = [op |-> "init", id |-> "", ret |-> "ok"]
    /\ accessed = [x \in {} |-> 0]
    /\ saved = [x \in {} |-> 0]
    /\ listing = << >>
    /\ StoreConstructed(DefaultPruneAfterDays, DefaultMinImportanceToKeep, DefaultMaxMemories)

\* a fresh registry over the same storage
Restart(n, order) ==
    /\ max_sessions' = n
    /\ Becomes(Constructed(disk, order))
    /\ accessed' = [x \in {} |-> 0]
    /\ last' = [op |-> "restart", id |-> "", ret |-> "ok"]
    /\ UNCHANGED <<now, windowVars, storeVars>>

create_session(id, k, cap) ==
    LET r == CreateSession(Registry, max_sessions, id, k, Reading)
        reads == r.ret # "ValueError"
    IN  /\ reads => now < cap
        /\ now' = IF reads THEN Reading ELSE now
        /\ Becomes(r.reg)
        /\ accessed' = Restrict(IF reads THEN Put(accessed, id, Reading) ELSE accessed,
                                DOMAIN r.reg.active)
        /\ last' = [op |-> "create_session", id |-> id, ret |-> r.ret]
        /\ UNCHANGED <<max_sessions, windowVars, storeVars>>

add_message(id, role, content, cap) ==
    LET r == AddMessage(Registry, id, role, content, Reading)
        reads == r.ret = "ok"
    IN  /\ reads => now < cap
        /\ now' = IF reads THEN Reading ELSE now
        /\ Becomes(r.reg)
        /\ accessed' = IF reads THEN Put(accessed, id, Reading) ELSE accessed
        /\ last' = [op |-> "add_message", id |-> id, ret |-> r.ret]
        /\ UNCHANGED <<max_sessions, windowVars, storeVars>>

get_messages(id, cap) ==
    LET r == GetMessages(Registry, id, Reading)
        reads == r.ret = "ok"
    IN  /\ reads => now < cap
        /\ now' = IF reads THEN Reading ELSE now
        /\ Becomes(r.reg)
        /\ accessed' = IF reads THEN Put(accessed, id, Reading) ELSE accessed
        /\ last' = [op |-> "get_messages", id |-> id, ret |-> r.ret]
        /\ UNCHANGED <<max_sessions, windowVars, storeVars>>

save_session(id) ==
    LET r == SaveSession(Registry, id)
        wrote == id \in DOMAIN active_sessions /\ r.ret = "ok"
    IN  /\ active_sessions' = r.reg.active
        /\ session_metadata' = r.reg.meta
        /\ disk' = r.reg.files
        /\ saved' = IF wrote
                        THEN Put(saved, id,
                                 [messages |-> active_sessions[id].messages,
                                  message_count |-> DictGet(session_metadata, id).message_count])
                        ELSE saved
        /\ listing' = << >>
        /\ last' = [op |-> "save_session", id |-> id, ret |-> r.ret]
        /\ UNCHANGED <<now, max_sessions, accessed, windowVars, storeVars>>

load_session(id) ==
    LET r == LoadSession(Registry, id)
    IN  /\ Becomes(r.reg)
        /\ last' = [op |-> "load_session", id |-> id, ret |-> r.ret]
        /\ UNCHANGED <<now, max_sessions, accessed, windowVars, storeVars>>

delete_session(id) ==
    LET r == DeleteSession(Registry, id)
    IN  /\ Becomes(r.reg)
        /\ accessed' = Restrict(accessed, DOMAIN r.reg.active)
        /\ last' = [op |-> "delete_session", id |-> id, ret |-> r.ret]
        /\ UNCHANGED <<now, max_sessions, windowVars, storeVars>>

list_sessions ==
    /\ listing' = ListSessions(Registry)
    /\ last' = [op |-> "list_sessions", id |-> "", ret |-> "ok"]
    /\ UNCHANGED <<now, max_sessions, active_sessions, session_metadata, disk,
                   accessed, saved, windowVars, storeVars>>

Next ==
    \/ \E id \in Ids, k \in 1..MaxSessionHist : create_session(id, k, MaxClock)
    \/ \E id \in Ids, role \in SessionRoles, content \in Contents :
           add_message(id, role, content, MaxClock)
    \/ \E id \in Ids : get_messages(id, MaxClock)
    \/ \E id \in Ids : save_session(id)
    \/ \E id \in Ids : load_session(id)
    \/ \E id \in Ids : delete_session(id)
    \/ list_sessions
    \/ \E n \in SessionLimits : \E order \in Orders(DOMAIN disk) : Restart(n, order)

Spec == Init /\ [][Next]_vars

----------------------------------------------------------------------------
(* Eviction among more sessions: a registry over an empty storage, with    *)
(* the calls that create, read and persist sessions.                       *)

EvictInit ==
    /\ now = 0
    /\ win = NewMemory(DefaultMaxHistory, 0)
    /\ appended = << >>
    /\ got = NotAsked
    /\ max_sessions = EvictSessionLimit
    /\ active_sessions = [x \in {} |-> 0]
    /\ session_metadata = << >>
    /\ disk = [x \in {} |-> 0]
    /\ last = [op |-> "init", id |-> "", ret |-> "ok"]
    /\ accessed = [x \in {} |-> 0]
    /\ saved = [x \in {} |-> 0]
    /\ listing = << >>
    /\ StoreConstructed(DefaultPruneAfterDays, DefaultMinImportanceToKeep, DefaultMaxMemories)

EvictNext ==
    \/ \E id \in EvictIds : create_session(id, 1, MaxEvictClock)
    \/ \E id \in EvictIds : get_messages(id, MaxEvictClock)
    \/ \E id \in EvictIds :
           /\ Cardinality(DOMAIN disk \cup {id}) <= MaxEvictFiles
           /\ save_session(id)
    \/ \E id \in EvictIds : load_session(id)

SpecEvict == EvictInit /\ [][EvictNext]_vars

----------------------------------------------------------------------------
(* A MemoryStore in use *)

RegistryIdle ==
    /\ now = 0
    /\ win = NewMemory(DefaultMaxHistory, 0)
    /\ appended = << >>
    /\ got = NotAsked
    /\ max_sessions = 1
    /\ active_sessions = [x \in {} |-> 0]
    /\ session_metadata = << >>
    /\ disk = [x \in {} |-> 0]
    /\ last = [op |-> "init", id |-> "", ret |-> "ok"]
    /\ accessed = [x \in {} |-> 0]
    /\ saved = [x \in {} |-> 0]
    /\ listing = << >>

StoreInit ==
    /\ RegistryIdle
    /\ \E days \in PruneAfterDaysChoices, cap \in MaxMemoriesChoices :
           StoreConstructed(days, DefaultMinImportanceToKeep, cap)

\* a store that keeps low-importance memories for some days
QueryInit ==
    /\ RegistryIdle
    /\ \E days \in PruneAfterDaysChoices \ {0}, cap \in MaxMemoriesChoices :
           StoreConstructed(days, DefaultMinImportanceToKeep, cap)

\* what every add_* call does with the outcome of add_memory
Added(op, r) ==
    /\ r.ret.raised = "" => instant < MaxAdds
    /\ instant' = IF r.ret.raised = "" THEN instant + 1 ELSE instant
    /\ StoreBecomes(r.store)
    /\ answer' = [Called(op, r.ret) EXCEPT !.made = r.made]
    /\ UNCHANGED <<today, recorded, now, last, managerVars, windowVars>>

add_memory(category, content, importance, tags) ==
    LET r == AddMemory(Store, category, content, importance, << >>, tags, today, instant)
    IN  /\ Added("add_memory", r)

add_success_pattern(pattern, success_rate, tags) ==
    LET r == AddSuccessPattern(Store, pattern, success_rate, tags, today, instant)
    IN  /\ Added("add_success_pattern", r)

add_failure_pattern(failure, lesson) ==
    LET r == AddFailurePattern(Store, failure, lesson, << >>, today, instant)
    IN  /\ Added("add_failure_pattern", r)

add_dead_end(dead_end, reason) ==
    LET r == AddDeadEnd(Store, dead_end, reason, << >>, today, instant)
    IN  /\ Added("add_dead_end", r)

add_insight(insight, source) ==
    LET r == AddInsight(Store, insight, source, << >>, today, instant)
    IN  /\ Added("add_insight", r)

query_memory(category, tags, min_importance, limit) ==
    LET r == QueryMemory(Store, category, tags, min_importance, limit, today)
    IN  /\ r.ret.raised = "" =>
               \A i \in 1..Len(r.ret.value) : r.ret.value[i].access_count <= MaxAccess
        /\ StoreBecomes(r.store)
        /\ answer' = Called("query_memory", r.ret)
        /\ UNCHANGED <<today, instant, recorded, now, last, managerVars, windowVars>>

search_similar(query, category, limit) ==
    LET r == SearchSimilar(Store, query, category, limit)
    IN  /\ StoreBecomes(r.store)
        /\ answer' = Called("search_similar", r.ret)
        /\ UNCHANGED <<today, instant, recorded, now, last, managerVars, windowVars>>

record_experiment(hypothesis, protocol) ==
    LET r == RecordExperiment(Store, hypothesis, protocol, today)
    IN  /\ StoreBecomes(r.store)
        /\ answer' = Called("record_experiment", r.ret)
        /\ recorded' = recorded \cup {<<hypothesis, protocol>>}
        /\ UNCHANGED <<today, instant, now, last, managerVars, windowVars>>

is_duplicate_experiment(hypothesis, protocol) ==
    LET r == IsDuplicateExperiment(Store, hypothesis, protocol)
    IN  /\ StoreBecomes(r.store)
        /\ answer' = Called("is_duplicate_experiment", r.ret)
        /\ UNCHANGED <<today, instant, recorded, now, last, managerVars, windowVars>>

get_stats ==
    LET r == GetStats(Store, max_memories)
    IN  /\ StoreBecomes(r.store)
        /\ answer' = Called("get_stats", r.ret)
        /\ UNCHANGED <<today, instant, recorded, now, last, managerVars, windowVars>>

clear_category(category) ==
    LET r == ClearCategory(Store, category)
    IN  /\ StoreBecomes(r.store)
        /\ answer' = Called("clear_category", r.ret)
        /\ UNCHANGED <<today, instant, recorded, now, last, managerVars, windowVars>>

clear_all ==
    LET r == ClearAll(Store)
    IN  /\ StoreBecomes(r.store)
        /\ answer' = Called("clear_all", r.ret)
        /\ recorded' = {}
        /\ UNCHANGED <<today, instant, now, last, managerVars, windowVars>>

\* days go by between two calls
DaysPass(d) ==
    /\ today + d <= MaxDay
    /\ today' = today + d
    /\ answer' = Called("days_pass", Returns(None))
    /\ UNCHANGED <<instant, memories, experiment_signatures, prune_after_days,
                   min_importance_to_keep, max_memories, recorded,
                   now, last, managerVars, windowVars>>

StoreNext ==
    \/ \E content \in StoreContents, importance \in ValidImportances :
           add_memory("general", content, importance, <<"cache">>)
    \/ add_insight(<<"use", "cache">>, "paper")
    \/ \E category \in QueryCategories, tags \in TagLists,
          min_importance \in MinImportances, limit \in Limits :
           query_memory(category, tags, min_importance, limit)
    \/ \E query \in Queries : search_similar(query, None, 1)
    \/ clear_category("general")
    \/ clear_all
    \/ \E d \in DaySteps : DaysPass(d)

SpecStore == QueryInit /\ [][StoreNext]_vars

----------------------------------------------------------------------------
(* add_memory and the convenience constructors built on it *)

AddNext ==
    \/ \E content \in StoreContents, importance \in Importances, tags \in TagLists :
           add_memory("general", content, importance, tags)
    \/ \E success_rate \in SuccessRates : add_success_pattern(<<"Use", "cache">>, success_rate, None)
    \/ add_failure_pattern(<<"oom">>, <<"Use", "cache">>)
    \/ add_dead_end(<<"cache">>, <<"slow">>)
    \/ add_insight(<<"use", "cache">>, "paper")
    \/ get_stats
    \/ \E category \in Categories : clear_category(category)
    \/ clear_all
    \/ \E d \in DaySteps : DaysPass(d)

SpecAdd == StoreInit /\ [][AddNext]_vars

----------------------------------------------------------------------------
(* Keyword search over the memories of the demo and of their kind *)

SearchNext ==
    \/ add_success_pattern(DemoPattern, DemoSuccessRate, DemoTags)
    \/ \E content \in SearchContents : add_memory("general", content, 50, None)
    \/ \E query \in SearchQueries, category \in SearchCategories, limit \in SearchLimits :
           search_similar(query, category, limit)
    \/ clear_all

SpecSearch == StoreInit /\ [][SearchNext]_vars

----------------------------------------------------------------------------
(* Queries and searches that name a category, valid or not *)

CategoryNext ==
    \/ \E importance \in ValidImportances :
           add_memory("general", <<"Use", "cache">>, importance, <<"cache">>)
    \/ add_insight(<<"use", "cache">>, "paper")
    \/ \E category \in QueryCategories \cup {Some(c) : c \in InvalidCategories},
          limit \in Limits :
           query_memory(category, None, 0, limit)
    \/ \E category \in QueryCategories \cup {Some(c) : c \in InvalidCategories},
          limit \in Limits :
           search_similar(<<"Use", "cache">>, category, limit)
    \/ clear_all

SpecCategory == QueryInit /\ [][CategoryNext]_vars

----------------------------------------------------------------------------
(* The life of a memory: every call of a MemoryStore, as days pass *)

LifeNext ==
    \/ \E importance \in ValidImportances :
           add_memory("general", <<"Use", "cache">>, importance, <<"cache">>)
    \/ add_insight(<<"use", "cache">>, "paper")
    \/ \E category \in QueryCategories : query_memory(category, None, 0, 1)
    \/ \E category \in QueryCategories : search_similar(<<"Use", "cache">>, category, 1)
    \/ record_experiment("H", None)
    \/ is_duplicate_experiment("H", None)
    \/ get_stats
    \/ clear_category("general")
    \/ clear_all
    \/ \E d \in DaySteps : DaysPass(d)

SpecLife == StoreInit /\ [][LifeNext]_vars

----------------------------------------------------------------------------
(* The experiment index of a MemoryStore that holds memories *)

DedupNext ==
    \/ add_insight(<<"use", "cache">>, "paper")
    \/ \E hypothesis \in Hypotheses, protocol \in Protocols :
           record_experiment(hypothesis, protocol)
    \/ \E hypothesis \in Hypotheses, protocol \in Protocols :
           is_duplicate_experiment(hypothesis, protocol)
    \/ get_stats
    \/ clear_all

SpecDedup == StoreInit /\ [][DedupNext]_vars

----------------------------------------------------------------------------
(* Properties *)

HasMetadata(id) == id \in DictKeys(session_metadata)
MetadataOf(id) == DictGet(session_metadata, id)

\* C1: a window with max_history = k >= 1 holds exactly the last min(n, k) of
\* the n turns appended to it, in the order they were appended.
C1_WindowHoldsLastTurns ==
    win.max_history >= 1 =>
        win.messages = SubSeq(appended,
                              Len(appended) - Min(Len(appended), win.max_history) + 1,
                              Len(appended))

\* k = 3 and four turns T1..T4: the window is [T2, T3, T4]
C1_Witness ==
    /\ win.max_history = 3
    /\ Len(appended) = 4
    /\ appended[1] # appended[2]
    /\ win.messages = <<appended[2], appended[3], appended[4]>>

\* C2: with exactly max_sessions sessions active, create_session of a new id
\* evicts exactly one session, the one whose last_accessed is oldest; the
\* other sessions and the new one are active afterwards.
C2_CreateEvictsExactlyOldest ==
    [][(/\ last'.op = "create_session"
        /\ last'.ret = "ok"
        /\ Cardinality(DOMAIN active_sessions) = max_sessions
        /\ \A id \in DOMAIN active_sessions : HasMetadata(id))
       => \E victim \in DOMAIN active_sessions :
              /\ DOMAIN active_sessions' =
                     (DOMAIN active_sessions \ {victim}) \cup {last'.id}
              /\ \A other \in DOMAIN active_sessions :
                     MetadataOf(victim).last_accessed <= MetadataOf(other).last_accessed]_vars

\* C3: every active session's metadata message_count equals the number of
\* turns in its window.
C3_MessageCountInSync ==
    \A id \in DOMAIN active_sessions :
        HasMetadata(id) =>
            MetadataOf(id).message_count = Len(active_sessions[id].messages)

\* C4: create_session of an id that is already active fails with the
\* already-exists error and changes neither the sessions, their metadata,
\* the persisted records nor the session limit (so nothing is evicted).
C4_DuplicateCreateFails ==
    [][(last'.op = "create_session" /\ last'.id \in DOMAIN active_sessions)
       => /\ last'.ret = "ValueError"
          /\ UNCHANGED <<active_sessions, session_metadata, disk, max_sessions>>]_vars

\* a create_session of an active id that holds turns was just refused
C4_Witness ==
    /\ last.op = "create_session"
    /\ last.ret = "ValueError"
    /\ last.id \in DOMAIN active_sessions
    /\ HasMetadata(last.id)
    /\ Len(active_sessions[last.id].messages) >= 1
    /\ Cardinality(DOMAIN active_sessions) = 2

\* C5: a load_session that returns false leaves the active sessions, their
\* windows and the metadata map as they were.
C5_FailedLoadChangesNothing ==
    [][(last'.op = "load_session" /\ last'.ret = "False")
       => UNCHANGED <<active_sessions, session_metadata>>]_vars

\* C6: a session whose metadata max_history is k >= 1 holds at most k turns.
C6_WindowWithinCapacity ==
    \A id \in DOMAIN active_sessions :
        (HasMetadata(id) /\ MetadataOf(id).max_history >= 1) =>
            Len(active_sessions[id].messages) <= MetadataOf(id).max_history

\* C7: the number of active sessions is at most max_sessions.
C7_ActiveWithinLimit == Cardinality(DOMAIN active_sessions) <= max_sessions

\* C8: when create_session evicts, every evicted session was last created,
\* written or read no later than every session that survives the call.
C8_EvictsLeastRecentlyAccessed ==
    [][(last'.op = "create_session" /\ last'.ret = "ok")
       => \A gone \in DOMAIN accessed \ DOMAIN active_sessions' :
              \A kept \in DOMAIN accessed' :
                  accessed[gone] <= accessed'[kept]]_vars

\* C9: while a session stays active in one registry, its turns change only by
\* its own add_message, which appends one turn and drops turns from the front
\* only when the window is full; no other call removes, reorders or alters one.
C9_TurnsLeaveOnlyByFifo ==
    [][last'.op # "restart" =>
       \A id \in DOMAIN active_sessions \cap DOMAIN active_sessions' :
           LET old == active_sessions[id].messages
               new == active_sessions'[id].messages
           IN  IF last'.op = "add_message" /\ last'.id = id /\ last'.ret = "ok"
                   THEN /\ new # << >>
                        /\ \E n \in 0..Len(old) :
                               /\ SubSeq(new, 1, Len(new) - 1) = SubSeq(old, n + 1, Len(old))
                               /\ n > 0 => Len(old) + 1 > active_sessions[id].max_history
                   ELSE new = old]_vars

\* C10: a load_session that succeeds, in particular on a fresh registry over
\* the same storage, yields the ordered message list and the message_count
\* that the session had when save_session wrote it.
C10_SaveLoadRoundTrip ==
    [][(last'.op = "load_session" /\ last'.ret = "True")
       => /\ last'.id \in DOMAIN saved
          /\ active_sessions'[last'.id].messages = saved[last'.id].messages
          /\ DictGet(session_metadata', last'.id).message_count
                 = saved[last'.id].message_count]_vars

\* a fresh registry (it has accessed nothing) has just loaded a session with turns
C10_Witness ==
    /\ last.op = "load_session"
    /\ last.ret = "True"
    /\ accessed = [x \in {} |-> 0]
    /\ Len(active_sessions[last.id].messages) >= 1
    /\ MetadataOf(last.id).message_count = Len(active_sessions[last.id].messages)

\* C11: add_message and get_messages on an id that is not active fail with
\* the not-found error and change nothing: no session, metadata entry or
\* record appears for the id and no other session is touched.
C11_AbsentSessionNotFound ==
    [][(last'.op \in {"add_message", "get_messages"}
           /\ last'.id \notin DOMAIN active_sessions)
       => /\ last'.ret = "ValueError"
          /\ UNCHANGED <<active_sessions, session_metadata, disk, max_sessions>>]_vars

\* add_message on an absent id was just refused while another session holds turns
C11_Witness ==
    /\ last.op = "add_message"
    /\ last.ret = "ValueError"
    /\ last.id \notin DOMAIN active_sessions
    /\ last.id \notin DictKeys(session_metadata)
    /\ \E other \in DOMAIN active_sessions :
           /\ Len(active_sessions[other].messages) >= 1
           /\ MetadataOf(other).message_count = 1

\* C12: after delete_session(id), and after create_session evicts id, id is
\* not active and has no persisted record; delete_session of an id that is
\* neither active nor persisted raises nothing and changes nothing.
C12_DeletedLeavesNoTrace ==
    [][/\ last'.op = "delete_session" =>
           /\ last'.id \notin DOMAIN active_sessions'
           /\ last'.id \notin DOMAIN disk'
           /\ (last'.id \notin DOMAIN active_sessions /\ last'.id \notin DOMAIN disk)
                  => /\ last'.ret = "ok"
                     /\ UNCHANGED <<active_sessions, session_metadata, disk, max_sessions>>
       /\ last'.op = "create_session" =>
           \A gone \in DOMAIN active_sessions \ DOMAIN active_sessions' :
               gone \notin DOMAIN disk']_vars

WellFormed(file) ==
    /\ file.kind = "json"
    /\ {"metadata", "messages", "created_at", "last_accessed"} \subseteq DOMAIN file.data
    /\ IsoParses(file.data.created_at)
    /\ IsoParses(file.data.last_accessed)

\* C13: right after a ConversationManager is constructed over a storage
\* directory, every id with a well-formed record there is active with the
\* record's messages and metadata.
C13_ConstructionRehydrates ==
    last.op \in {"init", "restart"} =>
        \A id \in DOMAIN disk :
            WellFormed(disk[id]) =>
                /\ id \in DOMAIN active_sessions
                /\ active_sessions[id].messages = disk[id].data.messages
                /\ HasMetadata(id)
                /\ MetadataOf(id) = disk[id].data.metadata

\* a fresh registry holds a session with a turn that it read from the storage
C13_Witness ==
    /\ last.op = "restart"
    /\ \E id \in DOMAIN disk :
           /\ WellFormed(disk[id])
           /\ Len(disk[id].data.messages) >= 1
           /\ id \in DOMAIN active_sessions
           /\ active_sessions[id].messages = disk[id].data.messages

\* C14: list_sessions returns exactly one entry per active session, most
\* recently accessed first, and changes no state.
C14_ListSessionsExact ==
    [][last'.op = "list_sessions" =>
           /\ UNCHANGED <<active_sessions, session_metadata, disk, max_sessions>>
           /\ Len(listing') = Cardinality(DOMAIN active_sessions)
           /\ {listing'[i].session_id : i \in 1..Len(listing')} = DOMAIN active_sessions
           /\ \A i \in 1..Len(listing') - 1 :
                  listing'[i].last_accessed >= listing'[i + 1].last_accessed]_vars

\* C15: is_duplicate_experiment(h, p) returns (true, a reason) exactly when
\* record_experiment was called with the same h and the same p since the last
\* clear_all, and (false, null) otherwise; it never changes the index.
C15_DuplicateIffRecorded ==
    [][/\ answer'.op = "is_duplicate_experiment" => UNCHANGED experiment_signatures
       /\ \A h \in Hypotheses, p \in Protocols :
              LET verdict == IsDuplicateExperiment(Store', h, p).ret.value
              IN  IF <<h, p>> \in recorded'
                      THEN verdict[1] /\ verdict[2] # None
                      ELSE verdict = <<FALSE, None>>]_vars

AddCalls == {"add_memory", "add_success_pattern", "add_failure_pattern",
             "add_dead_end", "add_insight"}

\* older than prune_after_days: created at or before the cutoff
Stale(memory) == today - memory.created_at >= prune_after_days

AllMemories == Flatten([i \in 1..Len(MemoryCategory) |-> memories[MemoryCategory[i]]])

\* C16: after an add, every category list is what it held before plus the new
\* memory, minus exactly the memories that are both below
\* min_importance_to_keep and older than prune_after_days, however many
\* memories are stored.
C16_PruneOnlyLowAndStale ==
    [][(answer'.op \in AddCalls /\ answer'.ret.raised = "") =>
           \A category \in Categories :
               memories'[category] =
                   SelectSeq(IF answer'.made.category = category
                                 THEN Append(memories[category], answer'.made)
                                 ELSE memories[category],
                             LAMBDA memory :
                                 ~(memory.importance < min_importance_to_keep
                                      /\ Stale(memory)))]_vars

\* an add has just let the store grow past max_memories while it holds a
\* fresh memory of low importance next to an old one of high importance
C16_Witness ==
    /\ answer.op \in AddCalls
    /\ answer.ret.raised = ""
    /\ Len(AllMemories) > max_memories
    /\ \E i, j \in 1..Len(AllMemories) :
           /\ AllMemories[i].importance >= min_importance_to_keep
           /\ Stale(AllMemories[i])
           /\ prune_after_days > 0
           /\ AllMemories[j].importance < min_importance_to_keep
           /\ AllMemories[j].id = answer.ret.value

\* C17: every add_memory and add_* call returns an id, whatever importance it
\* is given, and the memory it stores, like every stored memory, has an
\* importance between 0 and 1.
C17_AddAlwaysSucceeds ==
    [][answer'.op \in AddCalls =>
           /\ answer'.ret.raised = ""
           /\ 0 <= answer'.made.importance /\ answer'.made.importance <= 100
           /\ \A i \in 1..Len(AllMemories') :
                  0 <= AllMemories'[i].importance /\ AllMemories'[i].importance <= 100]_vars

\* the limits a query or a search is tried with in every state: none, the
\* ones the calls are made with, and more than the store can hold
AllLimits == {0} \cup Limits \cup {MaxAdds + 1}

\* C18: query_memory returns at most limit entries, each of them stored, of
\* the category asked for, of importance >= min_importance and, if tags are
\* given, sharing a tag with them; if it returns fewer than limit, it
\* returns every stored entry that passes these filters.
C18_QueryReturnsMatches ==
    \A category \in QueryCategories, tags \in TagLists,
       min_importance \in MinImportances, limit \in AllLimits :
        \A r \in {QueryMemory(Store, category, tags, min_importance, limit, today)} :
        \A out \in {r.ret.value} :
        \A after \in {Flatten([i \in 1..Len(MemoryCategory) |->
                                  r.store.memories[MemoryCategory[i]]])} :
        LET Passes(memory) ==
                /\ category # None => memory.category = category[1]
                /\ memory.importance >= min_importance
                /\ tags # << >> => \E tag \in {tags[i] : i \in 1..Len(tags)} :
                                       tag \in {memory.tags[i] : i \in 1..Len(memory.tags)}
        IN  /\ r.ret.raised = ""
            /\ Len(out) <= limit
            /\ \A i \in 1..Len(out) :
                   /\ \E j \in 1..Len(after) : after[j] = out[i]
                   /\ Passes(out[i])
            /\ Len(out) < limit =>
                   \A j \in 1..Len(after) :
                       Passes(after[j]) => \E i \in 1..Len(out) : out[i] = after[j]

\* a query has just returned one memory of importance 0.9 or more that has
\* the tag asked for, while a memory below that importance stays behind
C18_Witness ==
    /\ answer.op = "query_memory"
    /\ answer.ret.raised = ""
    /\ Len(answer.ret.value) = 1
    /\ answer.ret.value[1].importance >= 90
    /\ answer.ret.value[1].tags = <<"cache">>
    /\ answer.ret.value[1].access_count = 1
    /\ \E i \in 1..Len(AllMemories) :
           AllMemories[i].importance < 90 /\ AllMemories[i].access_count = 0

\* a's score importance / (whole days since creation + 1) is at least b's
ScoreNotBelow(a, b) ==
    a.importance * (today - b.created_at + 1) >= b.importance * (today - a.created_at + 1)

\* C19: query_memory returns its entries in non-increasing order of
\* importance / (whole days since creation + 1), no matching entry cut by
\* the limit scores strictly higher than a returned one, and of two returned
\* memories of equal importance one created now precedes one created 10
\* days ago.
C19_QueryRanksByScore ==
    \A category \in QueryCategories, tags \in TagLists,
       min_importance \in MinImportances, limit \in AllLimits :
        \A out \in {QueryMemory(Store, category, tags, min_importance, limit, today).ret.value} :
        \A stored \in {AllMemories} :
        LET returned == {out[i].id : i \in 1..Len(out)}
            cut == {i \in 1..Len(stored) :
                       /\ stored[i].id \notin returned
                       /\ category # None => stored[i].category = category[1]
                       /\ stored[i].importance >= min_importance
                       /\ tags # << >> => SharesTag(stored[i], tags)}
        IN  /\ \A i, j \in 1..Len(out) : i < j => ScoreNotBelow(out[i], out[j])
            /\ \A i \in 1..Len(out) : \A j \in cut : ScoreNotBelow(out[i], stored[j])
            /\ \A i, j \in 1..Len(out) :
                   (/\ out[i].importance = out[j].importance
                    /\ out[i].created_at = today
                    /\ out[j].created_at = today - 10) => i < j

\* a query has just returned the memory created today and left behind one of
\* the same importance, category and tags that was stored first, 10 days ago
C19_Witness ==
    /\ answer.op = "query_memory"
    /\ answer.ret.raised = ""
    /\ Len(answer.ret.value) = 1
    /\ answer.ret.value[1].created_at = today
    /\ \E i, j \in 1..Len(AllMemories) :
           /\ i < j
           /\ AllMemories[j].id = answer.ret.value[1].id
           /\ AllMemories[i].created_at = today - 10
           /\ AllMemories[i].importance = AllMemories[j].importance
           /\ AllMemories[i].category = AllMemories[j].category
           /\ AllMemories[i].tags = AllMemories[j].tags

\* C20: access_count and last_accessed of a stored memory change only in
\* query_memory and only for the entries it returns: there access_count
\* rises by 1 and last_accessed is refreshed; every other memory, and every
\* memory in every other call, keeps both.
C20_AccessMarksOnlyReturned ==
    [][LET returned == IF answer'.op = "query_memory"
                           THEN {answer'.ret.value[k].id : k \in 1..Len(answer'.ret.value)}
                           ELSE {}
       IN  \A c, d \in Categories :
               \A i \in 1..Len(memories[c]) : \A j \in 1..Len(memories'[d]) :
                   LET before == memories[c][i]
                       after == memories'[d][j]
                   IN  before.id = after.id =>
                           IF before.id \in returned
                               THEN /\ after.access_count = before.access_count + 1
                                    /\ after.last_accessed = today'
                               ELSE /\ after.access_count = before.access_count
                                    /\ after.last_accessed = before.last_accessed]_vars

\* a query has just marked the one memory it returned, days after it was
\* stored, and not the memory stored after it on the same day that passes
\* every filter the returned one passes
C20_Witness ==
    /\ answer.op = "query_memory"
    /\ answer.ret.raised = ""
    /\ Len(answer.ret.value) = 1
    /\ \E i, j \in 1..Len(AllMemories) :
           /\ AllMemories[j] = answer.ret.value[1]
           /\ AllMemories[j].access_count = 1
           /\ AllMemories[j].last_accessed > AllMemories[j].created_at
           /\ AllMemories[i].access_count = 0
           /\ AllMemories[i].last_accessed = AllMemories[i].created_at
           /\ AllMemories[i].created_at = AllMemories[j].created_at
           /\ j < i
           /\ AllMemories[i].category = AllMemories[j].category
           /\ AllMemories[i].tags = AllMemories[j].tags
           /\ AllMemories[i].importance = AllMemories[j].importance

TagsOf(memory) == {memory.tags[i] : i \in 1..Len(memory.tags)}

\* the lowercase tokens a memory's content shares with a query
SharedTokens(memory, query) ==
    {Lower(query[i]) : i \in 1..Len(query)}
        \cap {Lower(memory.content[i]) : i \in 1..Len(memory.content)}

\* C21: search_similar("优化 performance cache") returns the stored memory
\* whose content is "使用缓存机制优化重复计算" and whose tags include "cache" and
\* "performance", and returns no stored memory that shares only one token
\* with the query.
C21_DemoSearchFindsPattern ==
    LET out == SearchSimilar(Store, DemoQuery, None, 5).ret.value
        found == {out[k].id : k \in 1..Len(out)}
    IN  \A i \in 1..Len(AllMemories) :
            LET memory == AllMemories[i]
            IN  /\ (/\ memory.content = DemoPattern
                    /\ {"cache", "performance"} \subseteq TagsOf(memory))
                       => memory.id \in found
                /\ Cardinality(SharedTokens(memory, DemoQuery)) = 1
                       => memory.id \notin found

\* C22: search_similar returns at most limit memories, each stored, of the
\* category asked for (any if none is), each sharing at least 2 lowercase
\* tokens with the query, ordered from the most shared tokens to the fewest.
C22_SearchReturnsSimilar ==
    \A query \in SearchQueries, category \in SearchCategories, limit \in AllLimits :
        LET r == SearchSimilar(Store, query, category, limit)
            out == r.ret.value
            Shared(memory) == Cardinality(SharedTokens(memory, query))
        IN  /\ r.ret.raised = ""
            /\ Len(out) <= limit
            /\ \A i \in 1..Len(out) :
                   /\ \E j \in 1..Len(AllMemories) : AllMemories[j].id = out[i].id
                   /\ category # None => out[i].category = category[1]
                   /\ Shared(out[i]) >= 2
            /\ \A i, j \in 1..Len(out) : i < j => Shared(out[i]) >= Shared(out[j])

\* a search has just returned two memories, the one sharing 3 tokens with the
\* demo query ahead of the one sharing 2 that was stored before it
C22_Witness ==
    /\ answer.op = "search_similar"
    /\ answer.ret.raised = ""
    /\ Len(answer.ret.value) = 2
    /\ Cardinality(SharedTokens(answer.ret.value[1], DemoQuery)) = 3
    /\ Cardinality(SharedTokens(answer.ret.value[2], DemoQuery)) = 2
    /\ \E i, j \in 1..Len(AllMemories) :
           /\ i < j
           /\ AllMemories[i].id = answer.ret.value[2].id
           /\ AllMemories[j].id = answer.ret.value[1].id

\* the sum of counts[category] over a list of categories
RECURSIVE SumOver(_, _)
SumOver(counts, categories) ==
    IF categories = << >> THEN 0
    ELSE counts[Head(categories)] + SumOver(counts, Tail(categories))

\* the ids of the memories that were added and are still stored
StoredIds == UNION {{memories[category][i].id : i \in 1..Len(memories[category])} :
                        category \in Categories}

\* C23: whatever adds, clears and prunes came before, get_stats reports a
\* by_category with one count for each of the five categories, a
\* total_memories that is the sum of these counts, and that total is the
\* number of memories added and not since pruned or cleared.
C23_StatsCountStored ==
    LET stats == GetStats(Store, max_memories).ret.value
    IN  /\ DOMAIN stats.by_category = Categories
        /\ Cardinality(Categories) = 5
        /\ \A category \in Categories :
               stats.by_category[category] = Len(memories[category])
        /\ stats.total_memories = SumOver(stats.by_category, MemoryCategory)
        /\ stats.total_memories = Cardinality(StoredIds)
        /\ answer.op = "get_stats" => answer.ret.value = stats

\* get_stats has just counted the one memory that is left of the two that
\* were added: the other was pruned or cleared
C23_Witness ==
    /\ answer.op = "get_stats"
    /\ answer.ret.value.total_memories = 1
    /\ answer.ret.value.by_category["success_patterns"] = 1
    /\ answer.ret.value.by_category["general"] = 0
    /\ instant = 2

\* C24: query_memory with a category value that is none of the five
\* categories raises an error, whatever the store holds and whatever the
\* other arguments are: it returns no list, empty or not.
C24_InvalidCategoryRaises ==
    \A category \in InvalidCategories, tags \in TagLists,
       min_importance \in MinImportances, limit \in AllLimits :
        QueryMemory(Store, Some(category), tags, min_importance, limit, today).ret.raised # ""

\* the calls that may take a memory out of the store
ClearCalls == {"clear_category", "clear_all"}

\* C25: a stored memory sits in the list of its own category and, as long
\* as it is stored, keeps its id, category, content, importance and tags;
\* only an add stores a new memory; only an add or a clear removes one, and
\* an add removes only memories that its prune pass rejects.
C25_MemoriesAreStable ==
    [][/\ \A c \in Categories : \A i \in 1..Len(memories[c]) :
              LET memory == memories[c][i]
                  still == \E j \in 1..Len(memories'[c]) : memories'[c][j].id = memory.id
              IN  /\ memory.category = c
                  /\ \A d \in Categories : \A j \in 1..Len(memories'[d]) :
                         memories'[d][j].id = memory.id =>
                             /\ d = c
                             /\ memories'[d][j].category = memory.category
                             /\ memories'[d][j].content = memory.content
                             /\ memories'[d][j].importance = memory.importance
                             /\ memories'[d][j].tags = memory.tags
                  /\ answer'.op \notin AddCalls \cup ClearCalls => still
                  /\ (answer'.op \in AddCalls /\ ~still) =>
                         /\ memory.importance < min_importance_to_keep
                         /\ Stale(memory)
       /\ answer'.op \notin AddCalls =>
              \A d \in Categories : \A j \in 1..Len(memories'[d]) :
                  memories'[d][j].id \in StoredIds]_vars

\* a query has just returned a memory stored days before: it is still in its
\* category list, marked as accessed
C25_Witness ==
    /\ answer.op = "query_memory"
    /\ answer.ret.raised = ""
    /\ Len(answer.ret.value) = 1
    /\ \E i \in 1..Len(memories["general"]) :
           /\ memories["general"][i].id = answer.ret.value[1].id
           /\ memories["general"][i].category = "general"
           /\ memories["general"][i].access_count = 1
           /\ memories["general"][i].created_at < today

\* C26: get_messages(include_system=False) returns the window's turns whose
\* role is not system, get_messages(include_system=True) all of them, in the
\* order of the window, each as role and content and nothing else; the
\* window keeps its turns.
C26_GetMessagesHidesTimestamps ==
    [][(last'.op = "get_messages" /\ last'.id = "") =>
           LET shown == IF got'.include_system
                            THEN win.messages
                            ELSE SelectSeq(win.messages, LAMBDA turn : turn.role # "system")
           IN  /\ Len(got'.value) = Len(shown)
               /\ \A i \in 1..Len(shown) :
                      /\ DOMAIN got'.value[i] = {"role", "content"}
                      /\ got'.value[i].role = shown[i].role
                      /\ got'.value[i].content = shown[i].content
               /\ win' = win]_vars

\* get_messages(include_system=False) has just returned the user turn and the
\* assistant turn of a window that also holds a system turn between them
C26_Witness ==
    /\ last.op = "get_messages"
    /\ last.id = ""
    /\ ~got.include_system
    /\ Len(win.messages) = 3
    /\ win.messages[1].role = "user"
    /\ win.messages[2].role = "system"
    /\ win.messages[3].role = "assistant"
    /\ got.value = <<[role |-> "user", content |-> "hi"],
                     [role |-> "assistant", content |-> "hi"]>>

\* C27: a window created with max_history = 0 is empty after every append:
\* it never holds more than max_history turns.
C27_ZeroWindowStaysEmpty ==
    win.max_history = 0 =>
        /\ win.messages = << >>
        /\ Len(win.messages) <= win.max_history

\* C28: whatever max_sessions >= 1 is, a create_session(id) that returns
\* leaves id active with an empty window and a message_count of 0: its own
\* eviction run does not remove the session it created.
C28_CreatedSessionSurvives ==
    [][(last'.op = "create_session" /\ last'.ret = "ok" /\ max_sessions >= 1) =>
           /\ last'.id \in DOMAIN active_sessions'
           /\ active_sessions'[last'.id].messages = << >>
           /\ last'.id \in DictKeys(session_metadata')
           /\ DictGet(session_metadata', last'.id).message_count = 0]_vars

\* C29: in every state of a ConversationManager the ids of active_sessions
\* are the ids of session_metadata: no active session lacks metadata and no
\* metadata lacks its session.
C29_SessionsHaveMetadata ==
    DOMAIN active_sessions = DictKeys(session_metadata)

\* C30: whatever prune_after_days and min_importance_to_keep are, when an
\* add returns an id, the memory it built is in the list of its category
\* under that id: the prune pass of the add does not discard it.
C30_AddedMemoryIsStored ==
    [][(answer'.op \in AddCalls /\ answer'.ret.raised = "") =>
           \E i \in 1..Len(memories'[answer'.made.category]) :
               /\ memories'[answer'.made.category][i].id = answer'.ret.value
               /\ memories'[answer'.made.category][i] = answer'.made]_vars

====
